---------------------------- MODULE Spec2Model ----------------------------
(***************************************************************************)
(* A model of the bandit training subsystem of neuralmonkey:               *)
(*   - trainers/generic_bandit_trainer.py : _sum_gradients, the trainer's  *)
(*     construction, get_executable and the update and sample executables  *)
(*   - trainers/bandit_trainer.py         : reward scoring (local and      *)
(*     remote), control-variate accumulators, the expected-loss,           *)
(*     doubly-controlled and propensity-matching objectives.               *)
(* Tensors are modelled by integers and exact rationals, Python's None by  *)
(* the empty tuple, strings by sequences of one-character strings.         *)
(***************************************************************************)
EXTENDS Integers, Sequences, FiniteSets, TLC

VARIABLES
    \* ---- _sum_gradients ------------------------------------------------
    gradients_list,   \* the argument: a list of gradient lists
    summed,           \* the returned list of (tensor, var) pairs
    gpc,              \* "build" while the caller assembles the argument, then "done"
    \* ---- reward scoring (the two py_func bodies) ------------------------
    simulate_from_ref,\* TRUE: _score_with_reward_function, FALSE: _get_reward_from_service
    references,       \* (time, batch) array of reference indices (local mode)
    sources,          \* (time, batch) array of source indices (remote mode)
    hypotheses,       \* (time, batch) array of hypothesis indices
    calls,            \* the reward_function calls made so far, <<hyps_tokens, refs_tokens>>
    posts,            \* the payloads POSTed so far (data["inputs"])
    response,         \* what the service answered to the POST
    outcome,          \* what the py_func body did: returned rewards, or raised
    spc,              \* "ready" before the scorer runs, then "done"
    \* ---- the objectives and their reward accumulators -------------------
    objective,        \* which builder built the graph: "expected_loss", "dc", "dpm"
    control_variate,  \* the builder's control_variate argument
    number_of_samples,\* dc_objective's number_of_samples
    tpc,              \* "ready" between training steps, "loop" inside dc's tf.while_loop
    steps,            \* training steps completed
    uniform,          \* all steps so far had the same batch size and total reward
    batch_size,       \* decoder.batch_size of the current step
    sample_reward,    \* expected loss: the scorer's reward vector of the step
    rewards,          \* dc, dpm: decoder.train_rewards, the logged rewards of the batch
    reward_counter,   \* expected loss: tf.Variable reward_counter
    reward_sum,       \* expected loss: tf.Variable reward_sum
    baseline,         \* the baseline tensor of the step (None when not built)
    reward_counter_logged,
    reward_sum_logged,
    reward_counter_estimated,
    reward_sum_estimated,
    baseline_estimated,
    index,            \* loop variable of the tf.while_loop
    sampled_rewards,  \* TensorArray of size number_of_samples
    sampled_logprobs, \* TensorArray of size number_of_samples
    writes,           \* the (index, reward, logprob) writes of the loop body, in order
    samples_reward,   \* final_rewards.stack()
    samples_logprobs, \* final_logprobs.stack()
    loss_reward,      \* the reward factors that enter the loss, per part
    failed_steps,     \* expected loss: session runs that the scorer's exception aborted
    \* ---- GenericBanditTrainer and its two executables --------------------
    init_args,        \* the arguments of GenericBanditTrainer.__init__ (None before the call)
    init_outcome,     \* "new" before __init__, then "built", or "failed" (AssertionError)
    trainer,          \* the fields of the constructed trainer (None when there is none)
    get_args,         \* the arguments of the latest get_executable call
    executable,       \* the fields of the executable that call returned
    epc,              \* "idle", or "scheduled" between next_to_execute and collect_results
    next_execute,     \* the NextExecute triple the latest next_to_execute returned
    results,          \* results[0] of the latest collect_results call
    collected         \* collect_results calls made on the current executable

gradVars == <<gradients_list, summed, gpc>>
scoreVars == <<simulate_from_ref, references, sources, hypotheses,
               calls, posts, response, outcome, spc>>

accVars == <<reward_counter, reward_sum, reward_counter_logged, reward_sum_logged,
             reward_counter_estimated, reward_sum_estimated>>
loopVars == <<index, sampled_rewards, sampled_logprobs, writes>>
trainVars == <<objective, control_variate, number_of_samples, tpc, steps, uniform,
               batch_size, sample_reward, rewards, baseline, baseline_estimated,
               samples_reward, samples_logprobs, loss_reward, failed_steps,
               accVars, loopVars>>
trainerVars == <<init_args, init_outcome, trainer, get_args, executable, epc,
                 next_execute, results, collected>>

vars == <<gradVars, scoreVars, trainVars, trainerVars>>

-----------------------------------------------------------------------------
(* Bounds *)

\* gradients are the integers 0..MaxGrad (0 is a real, present gradient)
MaxGrad == 1
\* at most this many gradient lists are merged
MaxLists == 2
\* a batch holds 1..MaxBatch items
MaxBatch == 2
\* number_of_samples is 0..MaxSamples
MaxSamples == 2
\* at most this many training steps are taken
MaxSteps == 2
\* the sampled-reward tensor of a step holds at most this many entries
\* (number_of_samples * batch size)
MaxCells == 4
\* at most this many training steps are aborted by a failing scorer
MaxFailed == 1

-----------------------------------------------------------------------------
(* Python values *)

\* Python's None; a present tensor of value v is <<v>>
None == <<>>
Tensor(v) == <<v>>

-----------------------------------------------------------------------------
(* generic_bandit_trainer.py : gradient lists and _sum_gradients *)

\* tf.trainable_variables(): the parameters the optimizer knows
ParamSeq == <<"p1", "p2">>
Params == {ParamSeq[i] : i \in 1..Len(ParamSeq)}

GradVals == {None} \cup {Tensor(v) : v \in 0..MaxGrad}

\* optimizer.compute_gradients: one (gradient-or-None, var) pair per parameter
ComputeGradients(f) == [i \in 1..Len(ParamSeq) |-> <<f[ParamSeq[i]], ParamSeq[i]>>]

\* the comprehension's filter "if grad is not None" of the clipping branch
\* (the clipped value itself is modelled with the trainer)
DropAbsent(gradients) == SelectSeq(gradients, LAMBDA pr : pr[1] # None)

\* the gradient lists a caller can pass: as computed, or with absent pairs dropped
GradientLists ==
    LET computed == {ComputeGradients(f) : f \in [Params -> GradVals]}
    IN  computed \cup {DropAbsent(g) : g \in computed}

\* summed_dict: Python dict, kept as its items in insertion order, <<var, tensor>>
DictHas(d, var) == \E k \in 1..Len(d) : d[k][1] = var

DictAdd(d, var, tensor) ==
    IF DictHas(d, var)
    THEN [k \in 1..Len(d) |->
            IF d[k][1] = var THEN <<var, Tensor(d[k][2][1] + tensor[1])>> ELSE d[k]]
    ELSE Append(d, <<var, tensor>>)

\* a merge that fills an absent gradient with a zero tensor
RECURSIVE SumIntoZeroFill(_, _)
SumIntoZeroFill(d, gradients) ==
    IF gradients = <<>> THEN d
    ELSE LET tensor == Head(gradients)[1]
             var    == Head(gradients)[2]
         IN  SumIntoZeroFill(DictAdd(d, var, IF tensor = None THEN Tensor(0) ELSE tensor),
                             Tail(gradients))

\* the inner loop: for tensor, var in gradients
RECURSIVE SumInto(_, _)
SumInto(d, gradients) ==
    IF gradients = <<>> THEN d
    ELSE LET tensor == Head(gradients)[1]
             var    == Head(gradients)[2]
         IN  SumInto(IF tensor # None THEN DictAdd(d, var, tensor) ELSE d,
                     Tail(gradients))

\* the outer loop: for gradients in gradients_list
RECURSIVE SumLists(_, _)
SumLists(d, lists) ==
    IF lists = <<>> THEN d
    ELSE SumLists(SumInto(d, Head(lists)), Tail(lists))

\* _sum_gradients: [(tensor, var) for var, tensor in summed_dict.items()]
SumGradientsOp(lists) ==
    LET d == SumLists(<<>>, lists)
    IN  [k \in 1..Len(d) |-> <<d[k][2], d[k][1]>>]

\* the caller appends one more gradient list to the argument
AppendGradients ==
    /\ gpc = "build"
    /\ Len(gradients_list) < MaxLists
    /\ \E g \in GradientLists : gradients_list' = Append(gradients_list, g)
    /\ UNCHANGED <<summed, gpc>>
    /\ UNCHANGED <<scoreVars, trainVars, trainerVars>>

\* the call _sum_gradients(gradients_list)
SumGradients ==
    /\ gpc = "build"
    /\ summed' = SumGradientsOp(gradients_list)
    /\ gpc' = "done"
    /\ UNCHANGED gradients_list
    /\ UNCHANGED <<scoreVars, trainVars, trainerVars>>


-----------------------------------------------------------------------------
(* bandit_trainer.py : strings, vocabularies *)

\* a string is a sequence of characters; the sentinel tokens are one character each
END_TOKEN == <<"</s>">>
PAD_TOKEN == <<"<pad>">>
START_TOKEN == <<"<s>">>

\* decoder.vocabulary.index_to_word, indices from 0
Vocabulary == << PAD_TOKEN, START_TOKEN, END_TOKEN,
                 <<"a", "@", "@">>, <<"b">>, <<"c">> >>
\* decoder.encoders[0].vocabulary.index_to_word, indices from 0
SrcVocabulary == << PAD_TOKEN, START_TOKEN, END_TOKEN,
                    <<"x", "@", "@">>, <<"y">>, <<"z">> >>

IndexToWord(vocabulary, token_index) == vocabulary[token_index + 1]

\* a loop that stops at </s> only and takes <pad> as a word
RECURSIVE TakeUntilEndOnly(_, _)
TakeUntilEndOnly(vocabulary, tokens) ==
    IF tokens = <<>> THEN <<>>
    ELSE LET token == IndexToWord(vocabulary, Head(tokens))
         IN  IF token = END_TOKEN THEN <<>>
             ELSE <<token>> \o TakeUntilEndOnly(vocabulary, Tail(tokens))

\* for x_token in xs: token = index_to_word[x_token];
\*     if token == END_TOKEN or token == PAD_TOKEN: break; seq.append(token)
RECURSIVE TakeUntilStop(_, _)
TakeUntilStop(vocabulary, tokens) ==
    IF tokens = <<>> THEN <<>>
    ELSE LET token == IndexToWord(vocabulary, Head(tokens))
         IN  IF token = END_TOKEN \/ token = PAD_TOKEN THEN <<>>
             ELSE <<token>> \o TakeUntilStop(vocabulary, Tail(tokens))

\* sep.join(seq)
RECURSIVE Join(_, _)
Join(sep, seq) ==
    IF seq = <<>> THEN <<>>
    ELSE IF Len(seq) = 1 THEN seq[1]
    ELSE seq[1] \o sep \o Join(sep, Tail(seq))

IsPrefix(old, str) == Len(old) <= Len(str) /\ SubSeq(str, 1, Len(old)) = old

\* str.replace(old, new): every non-overlapping occurrence, left to right
RECURSIVE Replace(_, _, _)
Replace(str, old, new) ==
    IF str = <<>> THEN <<>>
    ELSE IF IsPrefix(old, str)
         THEN new \o Replace(SubSeq(str, Len(old) + 1, Len(str)), old, new)
         ELSE <<Head(str)>> \o Replace(Tail(str), old, new)

\* str.split(sep) for a one-character sep: "".split(" ") is [""]
RECURSIVE Split(_, _)
Split(str, sep) ==
    IF \A k \in 1..Len(str) : <<str[k]>> # sep THEN <<str>>
    ELSE LET k == CHOOSE j \in 1..Len(str) :
                      <<str[j]>> = sep /\ \A i \in 1..(j - 1) : <<str[i]>> # sep
         IN  <<SubSeq(str, 1, k - 1)>> \o Split(SubSeq(str, k + 1, Len(str)), sep)

SPACE == <<" ">>
BPE_MARK == <<"@", "@", " ">>

\* numpy's array.transpose() of a (time, batch) array: one row per batch item
Transpose(array) ==
    IF array = <<>> THEN <<>>
    ELSE [b \in 1..Len(array[1]) |-> [t \in 1..Len(array) |-> array[t][b]]]

Min2(a, b) == IF a <= b THEN a ELSE b

-----------------------------------------------------------------------------
(* bandit_trainer.py : _score_with_reward_function (local mode) *)

\* the user-supplied evaluator, called with one hypothesis and one reference:
\* here sentence accuracy
RewardFunction(hyps_list, refs_list) == IF hyps_list = refs_list THEN 1 ELSE 0

\* " ".join(seq).replace("@@ ", "").split(" ")
Detokenize(seq) == Split(Replace(Join(SPACE, seq), BPE_MARK, <<>>), SPACE)

\* the arguments of the reward_function call for one zip item
LocalCall(refs, hyps) ==
    LET ref_seq == TakeUntilStop(Vocabulary, refs)
        hyp_seq == TakeUntilStop(Vocabulary, hyps)
    IN  << <<Detokenize(hyp_seq)>>, <<Detokenize(ref_seq)>> >>

\* the calls of the loop over zip(references.transpose(), hypotheses.transpose())
LocalCalls(refs_array, hyps_array) ==
    LET r == Transpose(refs_array)
        h == Transpose(hyps_array)
    IN  [i \in 1..Min2(Len(r), Len(h)) |-> LocalCall(r[i], h[i])]

\* rewards.append(float(reward_function([hyps_tokens], [refs_tokens])))
ScoreWithRewardFunctionOp(refs_array, hyps_array) ==
    LET c == LocalCalls(refs_array, hyps_array)
    IN  [i \in 1..Len(c) |-> RewardFunction(c[i][1], c[i][2])]

-----------------------------------------------------------------------------
(* bandit_trainer.py : _get_reward_from_service (remote mode; the function is
   defined twice with the same body, in expected_loss_objective and in
   dc_objective) *)

\* request_inputs with the pair the other way round
RequestInputsSwapped(srcs_array, hyps_array) ==
    LET s == Transpose(srcs_array)
        h == Transpose(hyps_array)
    IN  [i \in 1..Min2(Len(s), Len(h)) |->
            << Join(SPACE, TakeUntilStop(Vocabulary, h[i])),
               Join(SPACE, TakeUntilStop(SrcVocabulary, s[i])) >>]

\* request_inputs.append((" ".join(src_seq), " ".join(hyp_seq)))
RequestInputs(srcs_array, hyps_array) ==
    LET s == Transpose(srcs_array)
        h == Transpose(hyps_array)
    IN  [i \in 1..Min2(Len(s), Len(h)) |->
            << Join(SPACE, TakeUntilStop(SrcVocabulary, s[i])),
               Join(SPACE, TakeUntilStop(Vocabulary, h[i])) >>]

\* the values drawn for a reward: a prediction of the service, the score of a
\* sample, a logged reward
RewardVals == {-1, 1}

RECURSIVE SeqsOf(_, _)
SeqsOf(S, n) ==
    IF n = 0 THEN {<<>>}
    ELSE {Append(q, x) : q \in SeqsOf(S, n - 1), x \in S}

Is2xx(status) == status \in 200..299

NoRewards == <<>>

\* what requests.post can come back with for a batch of n items: no response at
\* all (the call raises), or a status and a body; a body is text that is not
\* JSON, a JSON object without "predictions", or the service's answer
Responses(n) ==
    {[reached |-> FALSE, status |-> 0, valid_json |-> FALSE,
      has_predictions |-> FALSE, predictions |-> NoRewards]}
    \cup
    { [reached |-> TRUE, status |-> st, valid_json |-> b[1],
       has_predictions |-> b[2], predictions |-> b[3]] :
        st \in {200, 500},
        b \in {<<FALSE, FALSE, NoRewards>>, <<TRUE, FALSE, NoRewards>>}
              \cup {<<TRUE, TRUE, p>> : p \in SeqsOf(RewardVals, n)} }

NoResponse == [reached |-> FALSE, status |-> 0, valid_json |-> FALSE,
               has_predictions |-> FALSE, predictions |-> NoRewards]

Returned(reward_vector) == [ok |-> TRUE, rewards |-> reward_vector, error |-> "none"]
Raised(error) == [ok |-> FALSE, rewards |-> NoRewards, error |-> error]
NoOutcome == [ok |-> FALSE, rewards |-> NoRewards, error |-> "not run"]

\* response.content.decode(); JSONDecoder().decode(...)["predictions"];
\* the status is never read
ParseResponse(resp) ==
    IF ~resp.reached THEN Raised("ConnectionError")
    ELSE IF ~resp.valid_json THEN Raised("JSONDecodeError")
    ELSE IF ~resp.has_predictions THEN Raised("KeyError")
    ELSE Returned(resp.predictions)

-----------------------------------------------------------------------------
(* the scorer as a state machine: one py_func call on one batch *)

\* hypothesis and reference/source rows (time steps of one batch item), as indices
HypPool == { <<3, 4, 2, 5>>,      \* a@@ b </s> c
             <<4, 5, 3, 2>>,      \* b c a@@ </s>
             <<2, 3, 4, 5>>,      \* </s> a@@ b c
             <<3, 3, 4, 0>> }     \* a@@ a@@ b <pad>
RefPool == { <<3, 4, 2, 5>>,      \* a@@ b </s> c     (x@@ y </s> z as a source)
             <<4, 0, 5, 2>>,      \* b <pad> c </s>
             <<5, 4, 3, 3>> }     \* c b a@@ a@@

\* the (time, batch) array whose batch items are the given rows
ArrayOf(rows) ==
    [t \in 1..Len(rows[1]) |-> [b \in 1..Len(rows) |-> rows[b][t]]]

Batches(pool) == UNION {SeqsOf(pool, n) : n \in 1..MaxBatch}

NoArray == <<>>

\* tf.py_func(_score_with_reward_function, [reference, sample_decoded])
ScoreWithRewardFunction ==
    /\ spc = "ready"
    /\ simulate_from_ref
    /\ calls' = calls \o LocalCalls(references, hypotheses)
    /\ outcome' = Returned(ScoreWithRewardFunctionOp(references, hypotheses))
    /\ spc' = "done"
    /\ UNCHANGED <<simulate_from_ref, references, sources, hypotheses, posts, response>>
    /\ UNCHANGED <<gradVars, trainVars, trainerVars>>

\* tf.py_func(_get_reward_from_service, [sample_sources, sample_decoded])
GetRewardFromService ==
    /\ spc = "ready"
    /\ ~simulate_from_ref
    /\ posts' = Append(posts, RequestInputs(sources, hypotheses))
    /\ \E resp \in Responses(Len(hypotheses[1])) :
          /\ response' = resp
          /\ outcome' = ParseResponse(resp)
    /\ spc' = "done"
    /\ UNCHANGED <<simulate_from_ref, references, sources, hypotheses, calls>>
    /\ UNCHANGED <<gradVars, trainVars, trainerVars>>

-----------------------------------------------------------------------------
(* float tensors as exact rationals <<numerator, denominator>>, denominator > 0;
   NaN (the mean of an empty tensor, 0/0) is <<0, 0>> and is absorbing *)

NaN == <<0, 0>>
IsNaN(a) == a[2] = 0

Abs(n) == IF n < 0 THEN -n ELSE n

RECURSIVE Gcd(_, _)
Gcd(a, b) == IF b = 0 THEN a ELSE Gcd(b, a % b)

RatNorm(n, d) ==
    IF d = 0 THEN NaN
    ELSE LET sn == IF d < 0 THEN -n ELSE n
             sd == Abs(d)
             g  == Gcd(Abs(sn), sd)
         IN  <<sn \div g, sd \div g>>

ToFloat(n) == <<n, 1>>

RatAdd(a, b) ==
    IF IsNaN(a) \/ IsNaN(b) THEN NaN
    ELSE RatNorm(a[1] * b[2] + b[1] * a[2], a[2] * b[2])

RatSub(a, b) ==
    IF IsNaN(a) \/ IsNaN(b) THEN NaN
    ELSE RatNorm(a[1] * b[2] - b[1] * a[2], a[2] * b[2])

\* tf.div; the divisor is never zero here but for 0/0
RatDiv(a, b) ==
    IF IsNaN(a) \/ IsNaN(b) THEN NaN
    ELSE RatNorm(a[1] * b[2], a[2] * b[1])

\* a <= b; false when either is NaN
RatLe(a, b) == ~IsNaN(a) /\ ~IsNaN(b) /\ a[1] * b[2] <= b[1] * a[2]
RatLt(a, b) == ~IsNaN(a) /\ ~IsNaN(b) /\ a[1] * b[2] < b[1] * a[2]

\* tf.maximum
RatMax(a, b) ==
    IF IsNaN(a) \/ IsNaN(b) THEN NaN ELSE IF RatLe(a, b) THEN b ELSE a

RECURSIVE SumSeq(_)
SumSeq(v) == IF v = <<>> THEN 0 ELSE Head(v) + SumSeq(Tail(v))

RECURSIVE Flatten(_)
Flatten(m) == IF m = <<>> THEN <<>> ELSE Head(m) \o Flatten(Tail(m))

\* tf.reduce_sum of a vector of rewards
ReduceSum(v) == ToFloat(SumSeq(v))

\* tf.reduce_mean over all entries of a vector; NaN for an empty one
ReduceMean(v) == RatNorm(SumSeq(v), Len(v))

-----------------------------------------------------------------------------
(* bandit_trainer.py : the control-variate accumulators *)

\* tf.assign_add(ref, value): the variable's new value, which is also the
\* value of the returned tensor
AssignSub(ref, value) == RatSub(ref, value)
AssignAdd(ref, value) == RatAdd(ref, value)

\* a running mean that counts one more than the counter
BaselineOfSmoothed(sum, counter) == RatDiv(sum, RatAdd(counter, ToFloat(1)))

\* tf.div(sum, tf.maximum(counter, 1.0))
BaselineOf(sum, counter) == RatDiv(sum, RatMax(counter, ToFloat(1)))

\* the control_variate argument: Python's None or a string
CV_NONE == "None"
ControlVariates == {CV_NONE, "baseline", "reweighting"}

NoBaseline == <<>>

\* reinforce_score's "if baseline is not None: reward -= baseline", per item
SubtractBaseline(reward, b) ==
    IF b = NoBaseline THEN [i \in 1..Len(reward) |-> ToFloat(reward[i])]
    ELSE [i \in 1..Len(reward) |-> RatSub(ToFloat(reward[i]), b)]

\* the raw rewards as float tensors
Raw(reward) == [i \in 1..Len(reward) |-> ToFloat(reward[i])]

\* the reward factors of a loss: those of the logged part (dc's part1, dpm's
\* loss) and those of the sampled part (reinforce_score's reward, dc's part2)
LossReward(logged, sampled) == [logged |-> logged, sampled |-> sampled]
NoLossReward == LossReward(<<>>, <<>>)

\* a baseline read from the variables before the step's assign_add
StaleBaseline(counter, sum, b, reward) == BaselineOf(sum, counter)

\* expected_loss_objective, control_variate == "baseline": the baseline tensor
\* is built on the tensors returned by the two assign_add, after the update
UpdatedBaseline(counter, sum, b, reward) ==
    BaselineOf(AssignAdd(sum, ReduceSum(reward)), AssignAdd(counter, ToFloat(b)))

-----------------------------------------------------------------------------
(* bandit_trainer.py : expected_loss_objective, one training step (one
   session run of the loss built by the builder) *)

ExpectedLossStep ==
    /\ objective = "expected_loss"
    /\ tpc = "ready"
    /\ steps < MaxSteps
    /\ \E b \in 1..MaxBatch : \E reward \in SeqsOf(RewardVals, b) :
          /\ batch_size' = b
          /\ sample_reward' = reward
          /\ uniform' = (steps = 0 \/ (uniform /\ b = batch_size
                                       /\ SumSeq(reward) = SumSeq(sample_reward)))
          /\ IF control_variate = "baseline"
             THEN /\ reward_counter' = AssignAdd(reward_counter, ToFloat(b))
                  /\ reward_sum' = AssignAdd(reward_sum, ReduceSum(reward))
                  /\ baseline' = UpdatedBaseline(reward_counter, reward_sum, b, reward)
             ELSE /\ UNCHANGED <<reward_counter, reward_sum>>
                  /\ baseline' = NoBaseline
          /\ loss_reward' = LossReward(<<>>, <<SubtractBaseline(reward, baseline')>>)
    /\ steps' = steps + 1
    /\ UNCHANGED <<failed_steps, objective, control_variate, number_of_samples, tpc, rewards,
                   baseline_estimated, samples_reward, samples_logprobs,
                   reward_counter_logged, reward_sum_logged,
                   reward_counter_estimated, reward_sum_estimated, loopVars>>
    /\ UNCHANGED <<gradVars, scoreVars, trainerVars>>

\* a session run of the loss whose py_func scorer raises (the service is not
\* reached, its answer is not JSON or has no predictions, the reward function
\* raises): the run is aborted, the assign_add on reward_sum never gets its
\* input. The assign_add on reward_counter takes decoder.batch_size only and
\* does not wait for the scorer: it has run before the abort, or it has not.
ExpectedLossFailedStep ==
    /\ objective = "expected_loss"
    /\ tpc = "ready"
    /\ steps < MaxSteps
    /\ failed_steps < MaxFailed
    /\ IF control_variate = "baseline"
       THEN \E b \in 1..MaxBatch :
               reward_counter' \in {reward_counter,
                                    AssignAdd(reward_counter, ToFloat(b))}
       ELSE UNCHANGED reward_counter
    /\ failed_steps' = failed_steps + 1
    /\ UNCHANGED <<objective, control_variate, number_of_samples, tpc, steps, uniform,
                   batch_size, sample_reward, rewards, baseline, baseline_estimated,
                   samples_reward, samples_logprobs, loss_reward, reward_sum,
                   reward_counter_logged, reward_sum_logged,
                   reward_counter_estimated, reward_sum_estimated, loopVars>>
    /\ UNCHANGED <<gradVars, scoreVars, trainerVars>>

-----------------------------------------------------------------------------
(* bandit_trainer.py : dc_objective, one training step in three parts: the
   logged part, the tf.while_loop over the samples, and the sampled part *)

\* an element of a TensorArray that was not written
Unwritten == <<>>
\* tf.TensorArray(size=n)
TensorArray(n) == [k \in 1..n |-> Unwritten]
\* ta.write(index, value), indices from 0
Write(ta, i, value) == [ta EXCEPT ![i + 1] = <<value>>]
\* ta.stack()
Stack(ta) == [k \in 1..Len(ta) |-> ta[k][1]]

\* the sentence log-probabilities of the decode of loop round i: one opaque
\* value per round
SentLogprobs(i) == [decode |-> i]

\* a loop condition that lets one more round through
ConditionInclusive(i, n) == i <= n

\* condition = lambda i, r, p: i < number_of_samples
Condition(i, n) == i < n

\* the logged part: lines 220-300
DcLogged ==
    /\ objective = "dc"
    /\ tpc = "ready"
    /\ steps < MaxSteps
    /\ \E b \in 1..MaxBatch : \E logged \in SeqsOf(RewardVals, b) :
          /\ b * number_of_samples <= MaxCells
          /\ batch_size' = b
          /\ rewards' = logged
          /\ reward_counter_logged' = AssignAdd(reward_counter_logged, ToFloat(b))
          /\ reward_sum_logged' = AssignAdd(reward_sum_logged, ReduceMean(logged))
          /\ baseline' = BaselineOf(reward_sum_logged', reward_counter_logged')
          /\ loss_reward' = LossReward(SubtractBaseline(logged, baseline'), <<>>)
    /\ index' = 0
    /\ sampled_rewards' = TensorArray(number_of_samples)
    /\ sampled_logprobs' = TensorArray(number_of_samples)
    /\ writes' = <<>>
    \* the tensors of the sampled part are not computed yet in this run
    /\ samples_reward' = <<>>
    /\ samples_logprobs' = <<>>
    /\ baseline_estimated' = NoBaseline
    /\ tpc' = "loop"
    /\ UNCHANGED <<failed_steps, objective, control_variate, number_of_samples, steps, uniform,
                   sample_reward, reward_counter, reward_sum,
                   reward_counter_estimated, reward_sum_estimated>>
    /\ UNCHANGED <<gradVars, scoreVars, trainerVars>>

\* one round of the loop body: lines 310-330
DcBody ==
    /\ objective = "dc"
    /\ tpc = "loop"
    /\ Condition(index, number_of_samples)
    /\ \E reward \in SeqsOf(RewardVals, batch_size) :
          /\ sampled_rewards' = Write(sampled_rewards, index, reward)
          /\ sampled_logprobs' = Write(sampled_logprobs, index, SentLogprobs(index))
          /\ writes' = Append(writes, <<index, reward, SentLogprobs(index)>>)
    /\ index' = index + 1
    /\ UNCHANGED <<failed_steps, objective, control_variate, number_of_samples, tpc, steps,
                   uniform,
                   batch_size, sample_reward, rewards, baseline, baseline_estimated,
                   samples_reward, samples_logprobs, loss_reward, accVars>>
    /\ UNCHANGED <<gradVars, scoreVars, trainerVars>>

\* the loop has ended; the sampled part: lines 336-367
DcSampled ==
    /\ objective = "dc"
    /\ tpc = "loop"
    /\ ~Condition(index, number_of_samples)
    /\ samples_logprobs' = Stack(sampled_logprobs)
    /\ samples_reward' = Stack(sampled_rewards)
    /\ reward_counter_estimated' = AssignAdd(reward_counter_estimated, ToFloat(batch_size))
    /\ reward_sum_estimated' =
          AssignAdd(reward_sum_estimated, ReduceMean(Flatten(samples_reward')))
    /\ baseline_estimated' = BaselineOf(reward_sum_estimated', reward_counter_estimated')
    /\ loss_reward' = LossReward(loss_reward.logged,
          [k \in 1..Len(samples_reward') |->
              SubtractBaseline(samples_reward'[k], baseline_estimated')])
    /\ steps' = steps + 1
    /\ tpc' = "ready"
    /\ UNCHANGED <<failed_steps, objective, control_variate, number_of_samples, uniform,
                   batch_size, sample_reward, rewards, baseline,
                   reward_counter, reward_sum,
                   reward_counter_logged, reward_sum_logged, loopVars>>
    /\ UNCHANGED <<gradVars, scoreVars, trainerVars>>

-----------------------------------------------------------------------------
(* bandit_trainer.py : dpm_objective, one training step *)

DpmStep ==
    /\ objective = "dpm"
    /\ tpc = "ready"
    /\ steps < MaxSteps
    /\ \E b \in 1..MaxBatch : \E logged \in SeqsOf(RewardVals, b) :
          /\ batch_size' = b
          /\ rewards' = logged
          /\ loss_reward' = LossReward(Raw(logged), <<>>)
    /\ steps' = steps + 1
    /\ UNCHANGED <<failed_steps, objective, control_variate, number_of_samples, tpc, uniform,
                   sample_reward, baseline, baseline_estimated,
                   samples_reward, samples_logprobs, accVars, loopVars>>
    /\ UNCHANGED <<gradVars, scoreVars, trainerVars>>

-----------------------------------------------------------------------------
(* generic_bandit_trainer.py : GenericBanditTrainer.__init__ *)

\* gradients of the trainer are one-element tensors of norm 0..MaxNorm, and a
\* clip threshold is at most MaxNorm
MaxNorm == 2
\* at most this many scheduler rounds are run on one executable
MaxRounds == 2

\* the default clip_norm=False; a number c given as clip_norm is <<c>>
PyFalse == <<>>
ClipNorms == {PyFalse} \cup {Tensor(c) : c \in (0 - 1)..MaxNorm}

\* Python truth of the argument in "if clip_norm:": False, 0 and 0.0 are false
Truthy(x) == x # PyFalse /\ x[1] # 0

\* the l2 norm of a one-element tensor
Norm(grad) == Abs(grad[1])

\* tf.clip_by_norm(grad, clip_norm): grad * clip_norm / max(norm, clip_norm)
ClipByNorm(grad, c) ==
    IF Norm(grad) <= c THEN grad
    ELSE Tensor(IF grad[1] < 0 THEN 0 - c ELSE c)

\* a node of the graph, and the nodes that must run before it
Node(name) == [op |-> name, control_dependencies |-> <<>>]

\* optimizer.apply_gradients(grads_and_vars)
ApplyGradients(grads_and_vars) ==
    [op |-> "apply_gradients", grads_and_vars |-> grads_and_vars,
     control_dependencies |-> <<>>]

\* with tf.control_dependencies([self.update_op]): self.dummy = tf.constant(0)
Dummy(update_op) == [op |-> "constant", control_dependencies |-> <<update_op>>]

\* the nodes a fetch of node runs: the node and its control dependencies
RECURSIVE Runs(_)
Runs(node) ==
    {node} \cup UNION {Runs(node.control_dependencies[k]) :
                          k \in 1..Len(node.control_dependencies)}

\* [(tf.clip_by_norm(grad, clip_norm), var) for grad, var in self.gradients
\*  if grad is not None]
ClipGradients(gradients, c) ==
    LET present == DropAbsent(gradients)
    IN  [k \in 1..Len(present) |-> <<ClipByNorm(present[k][1], c), present[k][2]>>]

\* the objective's gradients and the regularizer's, as compute_gradients
\* returns them: one pair per trainable variable, None where there is none
ObjectiveGradients ==
    {ComputeGradients(f) :
        f \in [Params -> {None} \cup {Tensor(v) : v \in 0..MaxNorm}]}
RegGradients ==
    {ComputeGradients(f) : f \in [Params -> {None, Tensor(1)}]}

\* collect_encoders(self.objective.decoder)
AllCoders == {"encoder", "decoder"}

\* "assert clip_norm > 0.0" of the clipping branch
AssertionFails(args) == Truthy(args.clip_norm) /\ ~(args.clip_norm[1] > 0)

\* the fields of the trainer after __init__ returned
TrainerFields(args) ==
    LET gradients == IF Truthy(args.clip_norm)
                     THEN ClipGradients(args.gradients, args.clip_norm[1])
                     ELSE args.gradients
        update_op == ApplyGradients(SumGradientsOp(<<gradients, args.reg_gradients>>))
    IN  [gradients |-> gradients,
         reg_gradients |-> args.reg_gradients,
         all_coders |-> AllCoders,
         clip_norm |-> args.clip_norm,
         sample_op |-> <<Node("samples"), Node("sample_logprobs")>>,
         greedy_op |-> Node("decoded"),
         rewards |-> Node("rewards"),
         update_op |-> update_op,
         dummy |-> Dummy(update_op),
         loss |-> Node("loss"),
         regularizer_cost |-> Node("regularizer_cost"),
         histogram_summaries |-> Node("summary_gradients"),
         scalar_summaries |-> Node("summary_train")]

\* GenericBanditTrainer(objective, evaluator, clip_norm=...)
InitTrainer ==
    /\ init_outcome = "new"
    /\ \E c \in ClipNorms, g \in ObjectiveGradients, r \in RegGradients :
         LET args == [clip_norm |-> c, gradients |-> g, reg_gradients |-> r]
         IN  /\ init_args' = args
             /\ IF AssertionFails(args)
                THEN /\ init_outcome' = "failed"
                     /\ trainer' = None
                ELSE /\ init_outcome' = "built"
                     /\ trainer' = TrainerFields(args)
    /\ UNCHANGED <<get_args, executable, epc, next_execute, results, collected>>
    /\ UNCHANGED <<gradVars, scoreVars, trainVars>>

-----------------------------------------------------------------------------
(* generic_bandit_trainer.py : get_executable and the two executables *)

\* the loss values and the sampled outputs a session run can return
LossVals == {0, 1}
SampleVals == {1, 2}

\* UpdateBanditExecutable.__init__
UpdateBanditExecutable(all_coders, reward_placeholder, update_op, loss, scalar_summaries, histogram_summaries) ==
    [class |-> "UpdateBanditExecutable",
     all_coders |-> all_coders,
     reward_placeholder |-> reward_placeholder,
     update_op |-> update_op,
     loss |-> loss,
     scalar_summaries |-> scalar_summaries,
     histogram_summaries |-> histogram_summaries,
     result |-> None]

\* SampleBanditExecutable.__init__
SampleBanditExecutable(all_coders, sample_op, greedy_op, regularization_cost, scalar_summaries, histogram_summaries) ==
    [class |-> "SampleBanditExecutable",
     all_coders |-> all_coders,
     sample_op |-> sample_op,
     greedy_op |-> greedy_op,
     scalar_summaries |-> scalar_summaries,
     histogram_summaries |-> histogram_summaries,
     regularization_cost |-> regularization_cost,
     result |-> None]

\* a get_executable that builds the update executable whatever update says
GetExecutableAlwaysUpdate(self, update, summaries) ==
    UpdateBanditExecutable(self.all_coders, self.rewards, self.dummy, self.loss,
                           IF summaries THEN self.scalar_summaries ELSE None,
                           IF summaries THEN self.histogram_summaries ELSE None)

\* GenericBanditTrainer.get_executable(update, summaries)
GetExecutableOp(self, update, summaries) ==
    IF update
    THEN UpdateBanditExecutable(self.all_coders, self.rewards, self.dummy, self.loss,
                                IF summaries THEN self.scalar_summaries ELSE None,
                                IF summaries THEN self.histogram_summaries ELSE None)
    ELSE SampleBanditExecutable(self.all_coders, self.sample_op, self.greedy_op,
                                self.regularizer_cost, None, None)

\* a Python dict with the one item key: value, as its set of items
Dict1(key, value) == {<<key, value>>}
EmptyDict == {}

\* an extra feed that leaves the reward out
UpdateFeedEmpty(self, reward) == EmptyDict

\* {self.reward_placeholder: reward}
UpdateFeed(self, reward) == Dict1(self.reward_placeholder, reward)

\* UpdateBanditExecutable.next_to_execute(reward): feedables, fetches, extra feed
UpdateNextToExecute(self, reward) ==
    LET keys == {"update_op", "loss"} \cup
                (IF self.scalar_summaries # None
                 THEN {"scalar_summaries", "histogram_summaries"} ELSE {})
    IN  <<self.all_coders, [k \in keys |-> self[k]], UpdateFeed(self, reward)>>

\* SampleBanditExecutable.next_to_execute(reward=None)
SampleNextToExecute(self) ==
    LET keys == {"sample_op", "greedy_op", "reg_cost"} \cup
                (IF self.scalar_summaries # None
                 THEN {"scalar_summaries", "histogram_summaries"} ELSE {})
    IN  <<self.all_coders,
          [k \in keys |-> IF k = "reg_cost" THEN self.regularization_cost ELSE self[k]],
          EmptyDict>>

\* BanditExecutionResult(outputs, loss=, scalar_summaries=, histogram_summaries=,
\* image_summaries=)
BanditExecutionResult(outputs, loss, scalar_summaries, histogram_summaries, image_summaries) ==
    [outputs |-> outputs, loss |-> loss, scalar_summaries |-> scalar_summaries,
     histogram_summaries |-> histogram_summaries, image_summaries |-> image_summaries]

\* a collect_results that keeps what an earlier round put into result
UpdateCollectKeepsFirst(self, res) ==
    IF self.result # None THEN self.result
    ELSE BanditExecutionResult(<<>>, res["loss"], None, None, None)

\* UpdateBanditExecutable.collect_results(results), res = results[0]: the new
\* value of self.result
UpdateCollectResults(self, res) ==
    LET none == self.scalar_summaries = None
    IN  BanditExecutionResult(<<>>, res["loss"],
                              IF none THEN None ELSE res["scalar_summaries"],
                              IF none THEN None ELSE res["histogram_summaries"],
                              None)

\* SampleBanditExecutable.collect_results(results), res = results[0]
SampleCollectResults(self, res) ==
    LET none == self.scalar_summaries = None
        outputs == <<res["sample_op"][1], res["greedy_op"], res["sample_op"][2],
                     res["reg_cost"]>>
    IN  BanditExecutionResult(<<outputs>>, None,
                              IF none THEN None ELSE res["scalar_summaries"],
                              IF none THEN None ELSE res["histogram_summaries"],
                              None)

\* what the session hands back for the fetches of an update round: the loss, a
\* serialized summary per summary fetch, the value of the constant behind
\* update_op
UpdateResults(fetches) ==
    {[k \in DOMAIN fetches |->
         CASE k = "loss" -> Tensor(l)
           [] k = "update_op" -> Tensor(0)
           [] OTHER -> [summary |-> k]] : l \in LossVals}

\* what the session hands back for the fetches of a sample round
SampleResults(fetches) ==
    {[k \in DOMAIN fetches |->
         CASE k = "sample_op" -> <<Tensor(s), [logprobs_of |-> s]>>
           [] k = "greedy_op" -> [greedy_of |-> s]
           [] k = "reg_cost" -> Tensor(0)
           [] OTHER -> [summary |-> k]] : s \in SampleVals}

\* trainer.get_executable(update=..., summaries=...)
GetExecutable ==
    /\ init_outcome = "built"
    /\ epc = "idle"
    /\ \E update \in BOOLEAN, summaries \in BOOLEAN :
         /\ get_args' = [update |-> update, summaries |-> summaries]
         /\ executable' = GetExecutableOp(trainer, update, summaries)
    /\ next_execute' = None
    /\ results' = None
    /\ collected' = 0
    /\ UNCHANGED <<init_args, init_outcome, trainer, epc>>
    /\ UNCHANGED <<gradVars, scoreVars, trainVars>>

\* executable.next_to_execute(reward): the scheduler opens a round
NextToExecute ==
    /\ executable # None
    /\ epc = "idle"
    /\ collected < MaxRounds
    /\ IF executable.class = "UpdateBanditExecutable"
       THEN \E b \in 1..MaxBatch : \E reward \in SeqsOf(RewardVals, b) :
               next_execute' = UpdateNextToExecute(executable, reward)
       ELSE next_execute' = SampleNextToExecute(executable)
    /\ epc' = "scheduled"
    /\ UNCHANGED <<init_args, init_outcome, trainer, get_args, executable,
                   results, collected>>
    /\ UNCHANGED <<gradVars, scoreVars, trainVars>>

\* executable.collect_results(results): the scheduler closes the round with
\* what the session returned for the fetches
CollectResults ==
    /\ epc = "scheduled"
    /\ IF executable.class = "UpdateBanditExecutable"
       THEN \E res \in UpdateResults(next_execute[2]) :
               /\ results' = res
               /\ executable' =
                    [executable EXCEPT !.result = UpdateCollectResults(executable, res)]
       ELSE \E res \in SampleResults(next_execute[2]) :
               /\ results' = res
               /\ executable' =
                    [executable EXCEPT !.result = SampleCollectResults(executable, res)]
    /\ collected' = collected + 1
    /\ epc' = "idle"
    /\ UNCHANGED <<init_args, init_outcome, trainer, get_args, next_execute>>
    /\ UNCHANGED <<gradVars, scoreVars, trainVars>>

-----------------------------------------------------------------------------
(* Specifications *)

\* the state before _sum_gradients is called
GradInit ==
    /\ gradients_list = <<>>
    /\ summed = <<>>
    /\ gpc = "build"
    \* the scorer is not part of this run
    /\ simulate_from_ref = TRUE
    /\ references = NoArray
    /\ sources = NoArray
    /\ hypotheses = NoArray
    /\ calls = <<>>
    /\ posts = <<>>
    /\ response = NoResponse
    /\ outcome = NoOutcome
    /\ spc = "idle"
    \* no objective is trained in this run
    /\ objective = "none"
    /\ control_variate = CV_NONE
    /\ number_of_samples = 0
    /\ tpc = "idle"
    /\ steps = 0
    /\ uniform = TRUE
    /\ batch_size = 0
    /\ sample_reward = <<>>
    /\ rewards = <<>>
    /\ reward_counter = ToFloat(0)
    /\ reward_sum = ToFloat(0)
    /\ baseline = NoBaseline
    /\ reward_counter_logged = ToFloat(0)
    /\ reward_sum_logged = ToFloat(0)
    /\ reward_counter_estimated = ToFloat(0)
    /\ reward_sum_estimated = ToFloat(0)
    /\ baseline_estimated = NoBaseline
    /\ index = 0
    /\ sampled_rewards = <<>>
    /\ sampled_logprobs = <<>>
    /\ writes = <<>>
    /\ samples_reward = <<>>
    /\ samples_logprobs = <<>>
    /\ loss_reward = NoLossReward
    /\ failed_steps = 0
    \* no trainer is constructed in this run
    /\ init_args = None
    /\ init_outcome = "idle"
    /\ trainer = None
    /\ get_args = None
    /\ executable = None
    /\ epc = "idle"
    /\ next_execute = None
    /\ results = None
    /\ collected = 0

GradNext == AppendGradients \/ SumGradients

SpecGrad == GradInit /\ [][GradNext]_vars

\* the graph is built and a batch is fed: the two input arrays of the py_func
ScoreInit ==
    /\ simulate_from_ref \in BOOLEAN
    /\ \E n \in 1..MaxBatch :
         \E first \in SeqsOf(RefPool, n), hyp \in SeqsOf(HypPool, n) :
            /\ references = IF simulate_from_ref THEN ArrayOf(first) ELSE NoArray
            /\ sources = IF simulate_from_ref THEN NoArray ELSE ArrayOf(first)
            /\ hypotheses = ArrayOf(hyp)
    /\ calls = <<>>
    /\ posts = <<>>
    /\ response = NoResponse
    /\ outcome = NoOutcome
    /\ spc = "ready"
    \* the merge is not part of this run
    /\ gradients_list = <<>>
    /\ summed = <<>>
    /\ gpc = "idle"
    \* no objective is trained in this run
    /\ objective = "none"
    /\ control_variate = CV_NONE
    /\ number_of_samples = 0
    /\ tpc = "idle"
    /\ steps = 0
    /\ uniform = TRUE
    /\ batch_size = 0
    /\ sample_reward = <<>>
    /\ rewards = <<>>
    /\ reward_counter = ToFloat(0)
    /\ reward_sum = ToFloat(0)
    /\ baseline = NoBaseline
    /\ reward_counter_logged = ToFloat(0)
    /\ reward_sum_logged = ToFloat(0)
    /\ reward_counter_estimated = ToFloat(0)
    /\ reward_sum_estimated = ToFloat(0)
    /\ baseline_estimated = NoBaseline
    /\ index = 0
    /\ sampled_rewards = <<>>
    /\ sampled_logprobs = <<>>
    /\ writes = <<>>
    /\ samples_reward = <<>>
    /\ samples_logprobs = <<>>
    /\ loss_reward = NoLossReward
    /\ failed_steps = 0
    \* no trainer is constructed in this run
    /\ init_args = None
    /\ init_outcome = "idle"
    /\ trainer = None
    /\ get_args = None
    /\ executable = None
    /\ epc = "idle"
    /\ next_execute = None
    /\ results = None
    /\ collected = 0


ScoreNext == ScoreWithRewardFunction \/ GetRewardFromService

SpecScore == ScoreInit /\ [][ScoreNext]_vars

\* the state after one of the three builders has built its graph: the
\* tf.Variables are 0.0, nothing has run
TrainInit ==
    /\ objective \in {"expected_loss", "dc", "dpm"}
    /\ control_variate \in ControlVariates
    /\ number_of_samples \in 0..MaxSamples
    /\ objective # "dc" => number_of_samples = 0
    /\ tpc = "ready"
    /\ steps = 0
    /\ uniform = TRUE
    /\ batch_size = 0
    /\ sample_reward = <<>>
    /\ rewards = <<>>
    /\ reward_counter = ToFloat(0)
    /\ reward_sum = ToFloat(0)
    /\ baseline = NoBaseline
    /\ reward_counter_logged = ToFloat(0)
    /\ reward_sum_logged = ToFloat(0)
    /\ reward_counter_estimated = ToFloat(0)
    /\ reward_sum_estimated = ToFloat(0)
    /\ baseline_estimated = NoBaseline
    /\ index = 0
    /\ sampled_rewards = <<>>
    /\ sampled_logprobs = <<>>
    /\ writes = <<>>
    /\ samples_reward = <<>>
    /\ samples_logprobs = <<>>
    /\ loss_reward = NoLossReward
    /\ failed_steps = 0
    \* no trainer is constructed in this run
    /\ init_args = None
    /\ init_outcome = "idle"
    /\ trainer = None
    /\ get_args = None
    /\ executable = None
    /\ epc = "idle"
    /\ next_execute = None
    /\ results = None
    /\ collected = 0
    \* the merge and the scorer are not part of this run
    /\ gradients_list = <<>>
    /\ summed = <<>>
    /\ gpc = "idle"
    /\ simulate_from_ref = TRUE
    /\ references = NoArray
    /\ sources = NoArray
    /\ hypotheses = NoArray
    /\ calls = <<>>
    /\ posts = <<>>
    /\ response = NoResponse
    /\ outcome = NoOutcome
    /\ spc = "idle"

TrainNext ==
    \/ ExpectedLossStep
    \/ ExpectedLossFailedStep
    \/ DcLogged
    \/ DcBody
    \/ DcSampled
    \/ DpmStep

SpecTrain == TrainInit /\ [][TrainNext]_vars

\* before the trainer is constructed; the objective's graph exists
TrainerInit ==
    /\ init_args = None
    /\ init_outcome = "new"
    /\ trainer = None
    /\ get_args = None
    /\ executable = None
    /\ epc = "idle"
    /\ next_execute = None
    /\ results = None
    /\ collected = 0
    \* the merge, the scorer and the objectives are not run on their own
    /\ gradients_list = <<>>
    /\ summed = <<>>
    /\ gpc = "idle"
    /\ simulate_from_ref = TRUE
    /\ references = NoArray
    /\ sources = NoArray
    /\ hypotheses = NoArray
    /\ calls = <<>>
    /\ posts = <<>>
    /\ response = NoResponse
    /\ outcome = NoOutcome
    /\ spc = "idle"
    /\ objective = "none"
    /\ control_variate = CV_NONE
    /\ number_of_samples = 0
    /\ tpc = "idle"
    /\ steps = 0
    /\ uniform = TRUE
    /\ batch_size = 0
    /\ sample_reward = <<>>
    /\ rewards = <<>>
    /\ reward_counter = ToFloat(0)
    /\ reward_sum = ToFloat(0)
    /\ baseline = NoBaseline
    /\ reward_counter_logged = ToFloat(0)
    /\ reward_sum_logged = ToFloat(0)
    /\ reward_counter_estimated = ToFloat(0)
    /\ reward_sum_estimated = ToFloat(0)
    /\ baseline_estimated = NoBaseline
    /\ index = 0
    /\ sampled_rewards = <<>>
    /\ sampled_logprobs = <<>>
    /\ writes = <<>>
    /\ samples_reward = <<>>
    /\ samples_logprobs = <<>>
    /\ loss_reward = NoLossReward
    /\ failed_steps = 0

TrainerNext == InitTrainer \/ GetExecutable \/ NextToExecute \/ CollectResults

SpecTrainer == TrainerInit /\ [][TrainerNext]_vars

-----------------------------------------------------------------------------
(* Claim formulas *)

\* the positions <<i, j>> of the argument that hold a present gradient of p
PresentAt(p) ==
    {ij \in (1..Len(gradients_list)) \X (1..Len(ParamSeq)) :
        /\ ij[2] <= Len(gradients_list[ij[1]])
        /\ gradients_list[ij[1]][ij[2]][2] = p
        /\ gradients_list[ij[1]][ij[2]][1] # None}

GradAt(ij) == gradients_list[ij[1]][ij[2]][1][1]

RECURSIVE GradSum(_)
GradSum(S) ==
    IF S = {} THEN 0
    ELSE LET x == CHOOSE y \in S : TRUE IN GradAt(x) + GradSum(S \ {x})

\* C1: _sum_gradients returns, for every parameter with at least one present
\* gradient, exactly one pair holding the sum of its present gradients, and no
\* pair at all (no zero placeholder) for a parameter that is absent everywhere.
C1_SumGradients ==
    gpc = "done" =>
        /\ \A k \in 1..Len(summed) : summed[k][1] # None /\ summed[k][2] \in Params
        /\ \A p \in Params :
              LET at == {k \in 1..Len(summed) : summed[k][2] = p}
              IN  IF PresentAt(p) = {}
                  THEN at = {}
                  ELSE /\ Cardinality(at) = 1
                       /\ \A k \in at : summed[k][1] = Tensor(GradSum(PresentAt(p)))

\* C1 witness: the spec's example shape, A = [(g1,p1),(None,p2)] merged with
\* B = [(g2,p1),(g3,p2)], has been merged to [(g1+g2,p1),(g3,p2)]
C1_Witness ==
    /\ gpc = "done"
    /\ gradients_list = << <<<<Tensor(1), "p1">>, <<None, "p2">>>>,
                           <<<<Tensor(1), "p1">>, <<Tensor(0), "p2">>>> >>
    /\ summed = << <<Tensor(2), "p1">>, <<Tensor(0), "p2">> >>

-----------------------------------------------------------------------------
(* Claim formulas: reward scoring *)

\* batch item i of a (time, batch) array
Row(array, i) == [t \in 1..Len(array) |-> array[t][i]]

BatchSize(array) == Len(array[1])

\* the words of a row before its first end-of-sequence or padding token
KeptWords(vocabulary, row) ==
    LET w == [t \in 1..Len(row) |-> IndexToWord(vocabulary, row[t])]
        stops == {t \in 1..Len(row) : w[t] \in {END_TOKEN, PAD_TOKEN}}
        n == IF stops = {} THEN Len(row)
             ELSE (CHOOSE t \in stops : \A u \in stops : t <= u) - 1
    IN  SubSeq(w, 1, n)

EndsWithMark(word) ==
    Len(word) >= 2 /\ word[Len(word)] = "@" /\ word[Len(word) - 1] = "@"

\* byte-pair merging word by word: a word ending in "@@" is glued, without the
\* marker, to the word after it; no words at all leave one empty token
RECURSIVE MergeBPE(_)
MergeBPE(words) ==
    IF words = <<>> THEN << <<>> >>
    ELSE IF Len(words) = 1 THEN words
    ELSE IF EndsWithMark(words[1])
         THEN MergeBPE(<<SubSeq(words[1], 1, Len(words[1]) - 2) \o words[2]>>
                       \o SubSeq(words, 3, Len(words)))
         ELSE <<words[1]>> \o MergeBPE(Tail(words))

\* C5: local scoring calls the reward function once per batch item, in batch
\* order, with hypothesis and reference truncated at the first </s> or <pad>,
\* joined and byte-pair merged, and returns one reward per item in that order.
C5_LocalScoring ==
    (spc = "done" /\ simulate_from_ref) =>
        LET n == BatchSize(hypotheses)
        IN  /\ outcome.ok
            /\ Len(outcome.rewards) = n
            /\ Len(calls) = n
            /\ \A i \in 1..n :
                 /\ calls[i][1] = <<MergeBPE(KeptWords(Vocabulary, Row(hypotheses, i)))>>
                 /\ calls[i][2] = <<MergeBPE(KeptWords(Vocabulary, Row(references, i)))>>
                 /\ outcome.rewards[i] = RewardFunction(calls[i][1], calls[i][2])

\* C5 witness: a two-item batch whose first hypothesis is a@@ b </s> c, scored
\* as the single token "ab" against an equal reference, the second item differing
C5_Witness ==
    /\ spc = "done" /\ simulate_from_ref
    /\ BatchSize(hypotheses) = 2
    /\ Row(hypotheses, 1) = <<3, 4, 2, 5>>
    /\ calls[1][1] = << << <<"a", "b">> >> >>
    /\ Row(hypotheses, 2) = <<3, 3, 4, 0>>
    /\ Row(references, 2) = <<4, 0, 5, 2>>
    /\ outcome.rewards = <<1, 0>>

\* the string local mode builds for a row before splitting it
LocalString(vocabulary, row) ==
    Replace(Join(SPACE, TakeUntilStop(vocabulary, row)), BPE_MARK, <<>>)

\* C6: the source and hypothesis strings of the remote request are the strings
\* local mode would produce for the same tokens (truncated and with "@@ " removed).
C6_RemoteSameDetokenization ==
    (spc = "done" /\ ~simulate_from_ref) =>
        \A i \in 1..BatchSize(hypotheses) :
            posts[1][i] = << LocalString(SrcVocabulary, Row(sources, i)),
                             LocalString(Vocabulary, Row(hypotheses, i)) >>

\* str is the words joined by single spaces
JoinedFrom(str, words) ==
    IF words = <<>> THEN str = <<>> ELSE Split(str, SPACE) = words

FailedResponse(resp) ==
    \/ ~resp.reached
    \/ ~Is2xx(resp.status)
    \/ ~resp.valid_json
    \/ ~resp.has_predictions

\* C8: a failed response (non-2xx status, invalid JSON, no "predictions") never
\* makes the scorer return a reward vector.
C8_FailedResponseFails ==
    (spc = "done" /\ ~simulate_from_ref /\ FailedResponse(response)) => ~outcome.ok

-----------------------------------------------------------------------------
(* Claim formulas: control-variate accumulators and objectives *)

ExpectedLossBaseline == objective = "expected_loss" /\ control_variate = "baseline"

\* C2: expected loss with control_variate = "baseline": after any number k >= 1
\* of steps that all have batch size b and total reward s, the baseline is s / b.
C2_BaselineSteadyState ==
    (ExpectedLossBaseline /\ failed_steps = 0 /\ steps >= 1 /\ uniform) =>
        baseline = RatNorm(SumSeq(sample_reward), batch_size)

\* C2 witness: two steps of batch size 2 and total reward 2 each; the baseline is 1
C2_Witness ==
    /\ ExpectedLossBaseline /\ failed_steps = 0 /\ steps >= 2 /\ uniform
    /\ batch_size = 2
    /\ SumSeq(sample_reward) = 2
    /\ reward_counter = ToFloat(4)
    /\ baseline = ToFloat(1)

\* C3 as stated: after the first accumulation from zero state the baseline
\* equals the batch's total reward s.
C3_FirstBaselineIsTotal ==
    (ExpectedLossBaseline /\ failed_steps = 0 /\ steps = 1) => baseline = ToFloat(SumSeq(sample_reward))

\* C3 amended: after the first accumulation from zero state the counter is b,
\* the sum is s and the baseline is s / b, which is s only if b = 1 or s = 0.
C3_FirstBaseline ==
    (ExpectedLossBaseline /\ failed_steps = 0 /\ steps = 1) =>
        LET s == SumSeq(sample_reward)
        IN  /\ reward_counter = ToFloat(batch_size)
            /\ reward_sum = ToFloat(s)
            /\ baseline = RatNorm(s, batch_size)
            /\ (baseline = ToFloat(s)) <=> (batch_size = 1 \/ s = 0)

\* C3 witness: a first step of batch size 2 and total reward 2: the baseline is 1
C3_Witness ==
    /\ ExpectedLossBaseline /\ failed_steps = 0 /\ steps = 1
    /\ batch_size = 2
    /\ SumSeq(sample_reward) = 2
    /\ baseline = ToFloat(1)

\* C4 as stated: in every accumulator pair both the counter and the sum are
\* non-decreasing across every step.
C4_AllMonotone ==
    [][ /\ RatLe(reward_counter, reward_counter')
        /\ RatLe(reward_sum, reward_sum')
        /\ RatLe(reward_counter_logged, reward_counter_logged')
        /\ RatLe(reward_sum_logged, reward_sum_logged')
        /\ RatLe(reward_counter_estimated, reward_counter_estimated')
        /\ RatLe(reward_sum_estimated, reward_sum_estimated') ]_vars

\* a sum after a step that added amount to it: not below its old value when the
\* amount is >= 0, strictly below it when the amount is negative
MovesWith(old, new, amount) ==
    /\ RatLe(ToFloat(0), amount) => RatLe(old, new)
    /\ RatLt(amount, ToFloat(0)) => RatLt(new, old)

\* C4 amended: every counter is non-decreasing across every step; a sum is
\* non-decreasing across a step exactly when the amount the step adds to it (the
\* total reward of the batch for expected loss, the mean reward for the two
\* doubly-controlled pairs) is >= 0, decreases when it is negative, and is left
\* alone by every other step.
C4_CountersMonotone ==
    [][ /\ RatLe(reward_counter, reward_counter')
        /\ RatLe(reward_counter_logged, reward_counter_logged')
        /\ RatLe(reward_counter_estimated, reward_counter_estimated')
        /\ IF ExpectedLossBaseline /\ steps' = steps + 1
           THEN MovesWith(reward_sum, reward_sum', ReduceSum(sample_reward'))
           ELSE reward_sum' = reward_sum
        /\ IF objective = "dc" /\ tpc = "ready" /\ tpc' = "loop"
           THEN MovesWith(reward_sum_logged, reward_sum_logged', ReduceMean(rewards'))
           ELSE reward_sum_logged' = reward_sum_logged
        /\ IF objective = "dc" /\ tpc = "loop" /\ tpc' = "ready"
           THEN MovesWith(reward_sum_estimated, reward_sum_estimated',
                          ReduceMean(Flatten(samples_reward')))
           ELSE reward_sum_estimated' = reward_sum_estimated ]_vars

\* C4 witness: a second expected-loss step with rewards (-1, -1) has taken the
\* sum from 2 down to 0 while the counter went up to 4
C4_Witness ==
    /\ ExpectedLossBaseline /\ steps = 2
    /\ sample_reward = <<-1, -1>>
    /\ reward_sum = ToFloat(0)
    /\ reward_counter = ToFloat(4)

\* C9: the sample loop of the doubly-controlled objective runs exactly
\* number_of_samples rounds whatever rewards it sees; round i writes its reward
\* and its sentence log-probabilities at index i, each index once, and the
\* stacked tensors have leading dimension number_of_samples.
C9_SampleLoop ==
    objective = "dc" =>
        /\ tpc = "loop" =>
             /\ index <= number_of_samples
             /\ Len(writes) = index
             /\ \A k \in 1..number_of_samples :
                  IF k <= index
                  THEN /\ writes[k][1] = k - 1
                       /\ sampled_rewards[k] = <<writes[k][2]>>
                       /\ sampled_logprobs[k] = <<SentLogprobs(k - 1)>>
                  ELSE /\ sampled_rewards[k] = Unwritten
                       /\ sampled_logprobs[k] = Unwritten
        /\ (tpc = "ready" /\ steps >= 1) =>
             /\ index = number_of_samples
             /\ Len(writes) = number_of_samples
             /\ Len(samples_reward) = number_of_samples
             /\ Len(samples_logprobs) = number_of_samples
             /\ \A k \in 1..number_of_samples :
                  /\ writes[k][1] = k - 1
                  /\ samples_reward[k] = writes[k][2]
                  /\ Len(samples_reward[k]) = batch_size
                  /\ samples_logprobs[k] = SentLogprobs(k - 1)

\* C9 witness: a finished step with number_of_samples = 2 whose two rounds saw
\* different rewards
C9_Witness ==
    /\ objective = "dc" /\ tpc = "ready" /\ steps >= 1
    /\ number_of_samples = 2
    /\ samples_reward = << <<1>>, <<-1>> >>
    /\ Len(writes) = 2

\* the reward factors of the loss when no baseline is subtracted
RawLossReward ==
    LossReward(IF objective = "expected_loss" THEN <<>> ELSE Raw(rewards),
               IF objective = "expected_loss" THEN <<Raw(sample_reward)>>
               ELSE [k \in 1..Len(samples_reward) |-> Raw(samples_reward[k])])

\* C10: in each of the three builders, with control_variate unset, no baseline
\* is subtracted from any reward: the loss is computed from the raw rewards.
C10_NoBaselineWhenUnset ==
    (control_variate = CV_NONE /\ tpc = "ready" /\ steps >= 1) =>
        loss_reward = RawLossReward

-----------------------------------------------------------------------------
(* Claim formulas: the trainer and its executables *)

\* C11: constructing the trainer with a clip threshold that is provided but
\* not strictly positive (any value <= 0, exactly 0 included) fails at
\* construction time: no trainer is built.
C11_InvalidClipFails ==
    (init_args # None /\ init_args.clip_norm # PyFalse /\ init_args.clip_norm[1] <= 0)
        => (init_outcome = "failed" /\ trainer = None)

\* the graph nodes a fetch mapping names (sample_op is a pair of nodes)
FetchedNodes(fetches, k) ==
    IF k = "sample_op" THEN {fetches[k][1], fetches[k][2]} ELSE {fetches[k]}
\* the fetch under key k makes the session run the node update_op
RunsUpdate(fetches, k, update_op) ==
    \E node \in FetchedNodes(fetches, k) : update_op \in Runs(node)
UpdateKeys(fetches, update_op) ==
    {k \in DOMAIN fetches : RunsUpdate(fetches, k, update_op)}

\* the fetches of an open round agree with the mode of the get_executable call
ModeOfRound ==
    (executable # None /\ next_execute # None) =>
        IF get_args.update
        THEN UpdateKeys(next_execute[2], trainer.update_op) = {"update_op"}
        ELSE UpdateKeys(next_execute[2], trainer.update_op) = {}

\* C12: the mode is chosen per get_executable call: a unit obtained with
\* update=False never has the update operation among what its fetches run, a
\* unit obtained with update=True has it under exactly one fetch, and no step
\* after construction (get_executable included) changes the trainer.
C12_ModePerCall ==
    [][ /\ ModeOfRound'
        /\ init_outcome = "built" => UNCHANGED <<init_args, init_outcome, trainer>> ]_vars

\* C12 witness: the second round of an update unit is open and its update_op
\* fetch runs the trainer's apply_gradients node
C12_Witness ==
    /\ executable # None /\ get_args.update
    /\ collected = 1 /\ epc = "scheduled"
    /\ trainer.update_op \in Runs(next_execute[2]["update_op"])

SummaryKeys == {"scalar_summaries", "histogram_summaries"}

\* C13: update unit: next_to_execute(reward) returns the trainer's coders, the
\* fetches update_op and loss, plus both summaries exactly when summaries were
\* requested, and an extra feed with the single entry reward input -> reward;
\* collect_results sets result to (outputs [], the fetched loss, the fetched
\* summaries or None, image_summaries None).
C13_UpdateUnit ==
    (executable # None /\ executable.class = "UpdateBanditExecutable") =>
        /\ epc = "scheduled" =>
             LET fetches == next_execute[2]
                 feed == next_execute[3]
             IN  /\ next_execute[1] = trainer.all_coders
                 /\ DOMAIN fetches = {"update_op", "loss"} \cup
                        (IF get_args.summaries THEN SummaryKeys ELSE {})
                 /\ fetches["update_op"] = trainer.dummy
                 /\ fetches["loss"] = trainer.loss
                 /\ get_args.summaries =>
                      /\ fetches["scalar_summaries"] = trainer.scalar_summaries
                      /\ fetches["histogram_summaries"] = trainer.histogram_summaries
                 /\ Cardinality(feed) = 1
                 /\ \A item \in feed :
                      /\ item[1] = trainer.rewards
                      /\ \E b \in 1..MaxBatch : item[2] \in SeqsOf(RewardVals, b)
        /\ collected >= 1 =>
             /\ executable.result.outputs = <<>>
             /\ executable.result.loss = results["loss"]
             /\ executable.result.scalar_summaries =
                  (IF get_args.summaries THEN results["scalar_summaries"] ELSE None)
             /\ executable.result.histogram_summaries =
                  (IF get_args.summaries THEN results["histogram_summaries"] ELSE None)
             /\ executable.result.image_summaries = None

\* C13 witness: an update unit with summaries has collected a round of loss 1
\* and its next round is open with a two-item reward vector fed
C13_Witness ==
    /\ executable # None /\ executable.class = "UpdateBanditExecutable"
    /\ get_args.summaries
    /\ collected = 1 /\ epc = "scheduled"
    /\ executable.result.loss = Tensor(1)
    /\ executable.result.scalar_summaries # None
    /\ next_execute[3] = {<<trainer.rewards, <<1, 0 - 1>>>>}

\* the record a collect_results call builds from results[0] alone
RecordOf(unit, res) ==
    LET with == unit.scalar_summaries # None
    IN  [outputs |-> IF unit.class = "UpdateBanditExecutable" THEN <<>>
                     ELSE << <<res["sample_op"][1], res["greedy_op"],
                               res["sample_op"][2], res["reg_cost"]>> >>,
         loss |-> IF unit.class = "UpdateBanditExecutable" THEN res["loss"] ELSE None,
         scalar_summaries |-> IF with THEN res["scalar_summaries"] ELSE None,
         histogram_summaries |-> IF with THEN res["histogram_summaries"] ELSE None,
         image_summaries |-> None]

ResultIsLatest ==
    executable # None =>
        executable.result = (IF collected = 0 THEN None
                             ELSE RecordOf(executable, results))

\* C14: for both units and any sequence of rounds, result is None before the
\* first collect_results and afterwards equals the record built from the most
\* recent collect_results call alone (overwritten, never merged), and
\* next_to_execute changes neither result nor any other unit state.
C14_ResultOverwritten ==
    [][ /\ ResultIsLatest'
        /\ (epc = "idle" /\ epc' = "scheduled") => executable' = executable ]_vars

\* C14 witness: an update unit has collected two rounds and holds the loss 0 of
\* the latest one
C14_Witness ==
    /\ executable # None /\ executable.class = "UpdateBanditExecutable"
    /\ collected = 2 /\ epc = "idle"
    /\ results["loss"] = Tensor(0)
    /\ executable.result.loss = Tensor(0)

\* the gradient the optimizer is handed for var (None when it gets none)
Applied(var) ==
    LET gv == trainer.update_op.grads_and_vars
        at == {k \in 1..Len(gv) : gv[k][2] = var}
    IN  IF at = {} THEN None ELSE gv[CHOOSE k \in at : TRUE][1]

\* the objective-plus-regularizer sum for var (None when neither has one)
Merged(var) ==
    LET i == CHOOSE k \in 1..Len(ParamSeq) : ParamSeq[k] = var
        g == init_args.gradients[i][1]
        r == init_args.reg_gradients[i][1]
    IN  IF g = None /\ r = None THEN None
        ELSE Tensor((IF g = None THEN 0 ELSE g[1]) + (IF r = None THEN 0 ELSE r[1]))

\* C15: with a clip threshold set, every gradient the update operation applies
\* is the objective-plus-regularizer sum clipped to the threshold, so no
\* applied gradient has a norm above the threshold.
C15_AppliedIsClippedSum ==
    (init_outcome = "built" /\ Truthy(init_args.clip_norm)) =>
        \A var \in Params :
            Merged(var) # None =>
                /\ Applied(var) = ClipByNorm(Merged(var), init_args.clip_norm[1])
                /\ Norm(Applied(var)) <= init_args.clip_norm[1]

-----------------------------------------------------------------------------
(* Claim formulas: accumulation in the doubly-controlled objective, and steps
   whose scoring fails *)

\* the sum over the batch items of the mean over the samples of a
\* (samples, batch) reward tensor; the logged rewards are a single sample
SumOverBatchOfMeans(samples) == RatNorm(SumSeq(Flatten(samples)), Len(samples))

\* C16: each step of the doubly-controlled objective adds batch_size to each
\* counter and adds to the corresponding sum the mean over the samples followed
\* by the sum over the batch items of the rewards, so that sum / max(counter, 1)
\* is the running mean reward per batch item.
C16_DcAccumulation ==
    [][ /\ (objective = "dc" /\ tpc = "ready" /\ tpc' = "loop") =>
             /\ reward_counter_logged' =
                  RatAdd(reward_counter_logged, ToFloat(batch_size'))
             /\ reward_sum_logged' =
                  RatAdd(reward_sum_logged, SumOverBatchOfMeans(<<rewards'>>))
        /\ (objective = "dc" /\ tpc = "loop" /\ tpc' = "ready") =>
             /\ reward_counter_estimated' =
                  RatAdd(reward_counter_estimated, ToFloat(batch_size))
             /\ reward_sum_estimated' =
                  RatAdd(reward_sum_estimated, SumOverBatchOfMeans(samples_reward')) ]_vars

\* C17: expected loss with control_variate = "baseline": a step whose reward
\* scoring fails leaves both reward_counter and reward_sum unchanged, whatever
\* the order in which the step's independent operations ran.
C17_FailedStepLeavesPair ==
    [][ (ExpectedLossBaseline /\ failed_steps' = failed_steps + 1) =>
            (reward_counter' = reward_counter /\ reward_sum' = reward_sum) ]_vars

=============================================================================
